---- MODULE Spec2Model ----
(***************************************************************************)
(* The collection loop of scrap.py (scrape_articles) together with the     *)
(* two functions it calls to reach the site (fetch_html, extract_article). *)
(* The site is the environment: every fetch either fails or answers, and   *)
(* a listing page that answers carries any sequence of candidate links.    *)
(*                                                                         *)
(* Strings are sequences of tokens: "/photos/a" is <<"/","photos","/","a">>*)
(* so that substring tests and urljoin are computed, not assumed.          *)
(***************************************************************************)
EXTENDS Naturals, Sequences, FiniteSets, TLC

\* ------------------------------------------------------------------ bounds
MaxTarget == 2      \* max_articles ranges over 1..MaxTarget
MaxLinks  == 2      \* a listing page carries at most MaxLinks candidate links
MaxPage   == 4      \* page numbers >= MaxPage are identified (see EndPage)

\* --------------------------------------------------------------- constants
BASE_URL  == "https://www.hindustantimes.com"
WAIT_TIME == 2
category  == "business"
None      == "None"
EMPTY     == ""
TEXT      == "<html>"

\* what fetch_html returns without a document: None after an exception, or
\* the empty body of an answer; "not html" holds of both
NoDocument == {None, EMPTY}
Falsy(h)   == h \in NoDocument

\* ----------------------------------------------------- strings and links
\* An <a> element: has = FALSE when it has no href attribute.
NoHref     == [has |-> FALSE, href |-> <<>>]
Href(s)    == [has |-> TRUE,  href |-> s]

\* The candidate links a listing page can carry.
Anchors ==
  { NoHref,
    Href(<<"/", "photos", "/", "a">>),
    Href(<<BASE_URL, "/", "videos", "/", "a">>),
    Href(<<"/", "a">>),
    Href(<<BASE_URL, "/", "a">>),
    Href(<<"b">>) }

RECURSIVE SeqsUpTo(_, _)
SeqsUpTo(S, n) ==
  IF n = 0 THEN { <<>> }
  ELSE LET shorter == SeqsUpTo(S, n - 1)
       IN  shorter \cup { Append(s, x) : s \in shorter, x \in S }

\* soup.select('div[class*="cartHolder"] a') of a listing page that answered
Listings == SeqsUpTo(Anchors, MaxLinks)

\* t in s, for Python strings
Contains(s, t) ==
  \E i \in 0..Len(s) :
     /\ i + Len(t) <= Len(s)
     /\ \A j \in 1..Len(t) : s[i + j] = t[j]

PHOTOS == <<"/", "photos", "/">>
VIDEOS == <<"/", "videos", "/">>

\* urllib.parse.urljoin(base, href) for a base without a path
urljoin(base, href) ==
  IF href[1] = BASE_URL THEN href
  ELSE IF href[1] = "/" THEN <<base>> \o href
  ELSE <<base, "/">> \o href

\* the listing URL of a page
ListingURL(p) ==
  IF p = 1 THEN <<BASE_URL, "/", category, "/">>
  ELSE <<BASE_URL, "/", category, "/", "page-", ToString(p)>>

\* the record extract_article builds (only the URL field takes part in the loop)
Article(url) == [URL |-> url]

FileTypes == {"csv", "txt", "xlsx", "json"}
Writer(file_type) ==
  IF file_type = "csv" THEN "save_to_csv"
  ELSE IF file_type = "txt" THEN "save_to_txt"
  ELSE IF file_type = "xlsx" THEN "save_to_excel"
  ELSE "save_to_csv"

\* ------------------------------------------------------------------ state
VARIABLES
  max_articles,   \* the parameter of scrape_articles
  articles,       \* the accumulated records
  page,           \* the pagination cursor
  html,           \* what the last fetch_html returned
  links,          \* the candidate links of the current listing page
  idx,            \* how many of them the for loop has taken
  pc,             \* the position in scrape_articles
  stop,           \* why the while loop was left
  paused,         \* seconds slept by the last time.sleep since the last fetch
  failed,         \* the URLs whose fetch raised
  out             \* what was handed to the output writer

vars == <<max_articles, articles, page, html, links, idx, pc, stop, paused,
          failed, out>>

\* the link of the current for iteration and what the loop derives from it
link     == links[idx]
full_url == urljoin(BASE_URL, link.href)

Init ==
  /\ max_articles \in 1..MaxTarget
  /\ articles = <<>>
  /\ page = 1
  /\ html = "unset"
  /\ links = <<>>
  /\ idx = 0
  /\ pc = "while"
  /\ stop = "running"
  /\ paused = 0
  /\ failed = {}
  /\ out = [writer |-> "none", rows |-> <<>>]

\* ------------------------------------------------------- the loop's tests
\* line 86: while len(articles) < max_articles
while_cond_le == Len(articles) <= max_articles
while_cond == Len(articles) < max_articles

\* line 104: if len(articles) >= max_articles: break
for_break_gt == Len(articles) > max_articles
for_break == Len(articles) >= max_articles

\* line 107
non_article_photos_only(a) ==
  \/ ~a.has
  \/ a.href = <<>>
  \/ Contains(a.href, PHOTOS)
non_article(a) ==
  \/ ~a.has
  \/ a.href = <<>>
  \/ Contains(a.href, PHOTOS)
  \/ Contains(a.href, VIDEOS)

\* line 112
already_scraped_never(url) == FALSE
already_scraped_but_last(url) ==
  \E i \in 1..(Len(articles) - 1) : articles[i].URL = url
already_scraped(url) == \E i \in 1..Len(articles) : articles[i].URL = url

\* ---------------------------------------------------------------- actions
WhileEnter ==
  /\ pc = "while"
  /\ while_cond
  /\ pc' = "fetch_listing"
  /\ UNCHANGED <<max_articles, articles, page, html, links, idx, stop, paused,
                 failed, out>>

WhileExit ==
  /\ pc = "while"
  /\ ~while_cond
  /\ pc' = "save"
  /\ stop' = "target"
  /\ UNCHANGED <<max_articles, articles, page, html, links, idx, paused,
                 failed, out>>

ListingFetchFail ==
  /\ pc = "fetch_listing"
  /\ html' \in NoDocument
  /\ failed' = IF html' = None THEN failed \cup {ListingURL(page)} ELSE failed
  /\ paused' = 0
  /\ pc' = "save"
  /\ stop' = "fetch_failed"
  /\ UNCHANGED <<max_articles, articles, page, links, idx, out>>

ListingEmptyGoesOn ==
  /\ pc = "fetch_listing"
  /\ html' = TEXT
  /\ links' = <<>>
  /\ idx' = 0
  /\ paused' = 0
  /\ pc' = "for"
  /\ UNCHANGED <<max_articles, articles, page, stop, failed, out>>

ListingEmpty ==
  /\ pc = "fetch_listing"
  /\ html' = TEXT
  /\ links' = <<>>
  /\ paused' = 0
  /\ pc' = "save"
  /\ stop' = "no_links"
  /\ UNCHANGED <<max_articles, articles, page, idx, failed, out>>

ListingLinks ==
  /\ pc = "fetch_listing"
  /\ \E ls \in Listings \ { <<>> } : links' = ls
  /\ html' = TEXT
  /\ idx' = 0
  /\ paused' = 0
  /\ pc' = "for"
  /\ UNCHANGED <<max_articles, articles, page, stop, failed, out>>

ForEnd ==
  /\ pc = "for"
  /\ idx = Len(links)
  /\ pc' = "endpage"
  /\ UNCHANGED <<max_articles, articles, page, html, links, idx, stop, paused,
                 failed, out>>

ForBreak ==
  /\ pc = "for"
  /\ idx < Len(links)
  /\ for_break
  /\ idx' = idx + 1
  /\ pc' = "endpage"
  /\ UNCHANGED <<max_articles, articles, page, html, links, stop, paused,
                 failed, out>>

ForSkipHref ==
  /\ pc = "for"
  /\ idx < Len(links)
  /\ ~for_break
  /\ non_article(links[idx + 1])
  /\ idx' = idx + 1
  /\ UNCHANGED <<max_articles, articles, page, html, links, pc, stop, paused,
                 failed, out>>

ForSkipDup ==
  /\ pc = "for"
  /\ idx < Len(links)
  /\ ~for_break
  /\ ~non_article(links[idx + 1])
  /\ already_scraped(urljoin(BASE_URL, links[idx + 1].href))
  /\ idx' = idx + 1
  /\ UNCHANGED <<max_articles, articles, page, html, links, pc, stop, paused,
                 failed, out>>

ForCandidate ==
  /\ pc = "for"
  /\ idx < Len(links)
  /\ ~for_break
  /\ ~non_article(links[idx + 1])
  /\ ~already_scraped(urljoin(BASE_URL, links[idx + 1].href))
  /\ idx' = idx + 1
  /\ pc' = "extract"
  /\ UNCHANGED <<max_articles, articles, page, html, links, stop, paused,
                 failed, out>>

ExtractOK ==
  /\ pc = "extract"
  /\ html' = TEXT
  /\ articles' = Append(articles, Article(full_url))
  /\ paused' = 0
  /\ pc' = "sleep"
  /\ UNCHANGED <<max_articles, page, links, idx, stop, failed, out>>

ExtractFailRetries ==
  /\ pc = "extract"
  /\ html' \in NoDocument
  /\ failed' = IF html' = None THEN failed \cup {full_url} ELSE failed
  /\ paused' = 0
  /\ UNCHANGED <<max_articles, articles, page, links, idx, pc, stop, out>>

ExtractFailAborts ==
  /\ pc = "extract"
  /\ html' \in NoDocument
  /\ failed' = IF html' = None THEN failed \cup {full_url} ELSE failed
  /\ paused' = 0
  /\ pc' = "save"
  /\ stop' = "fetch_failed"
  /\ UNCHANGED <<max_articles, articles, page, links, idx, out>>

ExtractFail ==
  /\ pc = "extract"
  /\ html' \in NoDocument
  /\ failed' = IF html' = None THEN failed \cup {full_url} ELSE failed
  /\ paused' = 0
  /\ pc' = "sleep"
  /\ UNCHANGED <<max_articles, articles, page, links, idx, stop, out>>

SleepArticleSameLink ==
  /\ pc = "sleep"
  /\ paused' = WAIT_TIME
  /\ idx' = idx - 1
  /\ pc' = "for"
  /\ UNCHANGED <<max_articles, articles, page, html, links, stop, failed, out>>

SleepArticle ==
  /\ pc = "sleep"
  /\ paused' = WAIT_TIME
  /\ pc' = "for"
  /\ UNCHANGED <<max_articles, articles, page, html, links, idx, stop, failed,
                 out>>

\* page += 1 and the pause of line 123.  The loop reads page only to build
\* the listing URL, so the pages from MaxPage on are kept as one value.  The
\* for loop is over: its iterator is gone and links is assigned (line 97)
\* before it is read again, so both are cleared.
EndPage ==
  /\ pc = "endpage"
  /\ page' = IF page < MaxPage THEN page + 1 ELSE page
  /\ paused' = WAIT_TIME
  /\ links' = <<>>
  /\ idx' = 0
  /\ pc' = "while"
  /\ UNCHANGED <<max_articles, articles, html, stop, failed, out>>

Save ==
  /\ pc = "save"
  /\ \E file_type \in FileTypes :
        out' = [writer |-> Writer(file_type), rows |-> articles]
  /\ pc' = "done"
  /\ UNCHANGED <<max_articles, articles, page, html, links, idx, stop, paused,
                 failed>>

Next ==
  \/ WhileEnter
  \/ WhileExit
  \/ ListingFetchFail
  \/ ListingEmpty
  \/ ListingLinks
  \/ ForEnd
  \/ ForBreak
  \/ ForSkipHref
  \/ ForSkipDup
  \/ ForCandidate
  \/ ExtractOK
  \/ ExtractFail
  \/ SleepArticle
  \/ EndPage
  \/ Save

Spec == Init /\ [][Next]_vars

\* The program is sequential and every call returns: a step that can be
\* taken is taken.
FairSpec == Spec /\ WF_vars(Next)

\* ------------------------------------------------------------ properties
URLs == { articles[i].URL : i \in 1..Len(articles) }

\* a fetch is about to be issued: fetch_html(url) at line 92, or line 115
\* through extract_article
FetchingListing == pc = "fetch_listing"
FetchingArticle == pc = "extract"
LoopLeft        == pc \in {"save", "done"}

\* the href filter in the words of the specification
Marked(a) ==
  \/ ~a.has
  \/ Contains(a.href, PHOTOS)
  \/ Contains(a.href, VIDEOS)

\* C1: the accumulated records never outnumber max_articles, and neither
\* does the sequence handed to the output writer.
C1_AtMostTarget ==
  /\ Len(articles) <= max_articles
  /\ Len(out.rows) <= max_articles

\* target 1, a first listing page with two different article links: the
\* first was scraped, the for loop broke at the second
C1_Witness ==
  /\ pc = "endpage"
  /\ max_articles = 1
  /\ Len(articles) = 1
  /\ page = 1
  /\ failed = {}
  /\ html = TEXT
  /\ Len(links) = 2
  /\ idx = 2
  /\ ~non_article(links[1]) /\ ~non_article(links[2])
  /\ urljoin(BASE_URL, links[1].href) # urljoin(BASE_URL, links[2].href)

\* C2: no two accumulated records have the same URL.
C2_DistinctURLs ==
  \A i, j \in 1..Len(articles) :
     articles[i].URL = articles[j].URL => i = j

\* a link scraped on page 1 is the first link of page 2: it was passed over
\* right after the listing fetch, and the result still has one record
C2_Witness ==
  /\ page = 2
  /\ pc = "for"
  /\ idx = 1
  /\ paused = 0
  /\ max_articles = 2
  /\ Len(articles) = 1
  /\ ~non_article(link)
  /\ full_url = articles[1].URL

\* C3 (as claimed): the loop is left in every run.
C3_Terminates == <>(pc = "done")

\* C3 (amended): the loop is left only because the target was reached, a
\* listing fetch failed or a listing page had no candidate link, and a run
\* that never leaves it starts on a new non-empty listing page again and
\* again.
C3_TerminatesUnlessPagesGoOn ==
  /\ [](LoopLeft => \/ stop = "target" /\ Len(articles) = max_articles
                    \/ stop = "fetch_failed" /\ Falsy(html)
                    \/ stop = "no_links" /\ links = <<>>)
  /\ [](~LoopLeft => stop = "running")
  /\ \/ <>(pc = "done")
     \/ []<>(pc = "for" /\ idx = 0)

\* pagination ended on an empty listing page after some records were kept
C3_Witness ==
  /\ pc = "done"
  /\ stop = "no_links"
  /\ page > 1
  /\ Len(articles) >= 1
  /\ Len(articles) < max_articles

\* C4: a failed listing fetch, or a listing page without candidate links,
\* ends the loop on the spot: the records are left as they were, nothing is
\* fetched afterwards, and the run goes on to write exactly those records.
C4_ListingEndStops ==
  /\ [][ /\ (FetchingListing /\ (Falsy(html') \/ links' = <<>>))
              => (articles' = articles /\ pc' = "save" /\ page' = page)
         /\ LoopLeft
              => (articles' = articles /\ LoopLeft' /\ html' = html
                    /\ failed' = failed /\ stop' = stop) ]_vars
  /\ [](pc = "done" => out.rows = articles)

\* the fetch of listing page 2 failed and the record of page 1 was written
C4_Witness ==
  /\ pc = "done"
  /\ stop = "fetch_failed"
  /\ page = 2
  /\ Len(articles) = 1
  /\ out.rows = articles
  /\ failed = {ListingURL(2)}

C6_NonArticlesSkipped ==
  /\ [](FetchingArticle => ~Marked(link))
  /\ [][ /\ (pc = "for" /\ idx < Len(links) /\ Marked(links[idx + 1])
               /\ Len(articles) < max_articles)
              => (articles' = articles /\ pc' = "for" /\ idx' = idx + 1
                    /\ links' = links /\ html' = html /\ stop' = stop)
         /\ (articles' # articles)
              => (FetchingArticle /\ ~Marked(link)
                    /\ articles' = Append(articles, [URL |-> full_url])) ]_vars

\* a video link was passed over and the candidate after it is being fetched
C6_Witness ==
  /\ FetchingArticle
  /\ idx >= 2
  /\ links[idx - 1].has
  /\ Contains(links[idx - 1].href, VIDEOS)

\* C7: no article fetch is issued for a URL that a record of the result
\* already has, and no such URL is appended again.
C7_NoRefetchOfScraped ==
  /\ [](FetchingArticle => full_url \notin URLs)
  /\ [][ \A i \in 1..Len(articles') :
            (i > Len(articles) => articles'[i].URL \notin URLs) ]_vars

\* "/a" was scraped, then the absolute form of the same URL was passed over
C7_Witness ==
  /\ pc = "for"
  /\ page = 1
  /\ idx = 2
  /\ links[1].has /\ links[2].has
  /\ links[1] # links[2]
  /\ full_url = urljoin(BASE_URL, links[1].href)
  /\ URLs = {full_url}
  /\ Len(articles) = 1
  /\ max_articles >= 2
  /\ html = TEXT
  /\ failed = {}
  /\ paused = WAIT_TIME

\* C8: every fetch but the first of the run is issued after a pause.
C8_PauseBeforeEveryFetch ==
  ((FetchingListing \/ FetchingArticle) /\ html # "unset")
     => paused = WAIT_TIME

\* C9 (as claimed): a URL whose fetch failed is never fetched again.
C9_FailedNeverFetchedAgain ==
  /\ FetchingArticle => full_url \notin failed
  /\ FetchingListing => ListingURL(page) \notin failed

\* C9 (amended): a failed fetch is not repeated for the same candidate: after
\* a failed listing fetch nothing more is fetched, and an article fetch is
\* issued only for a candidate the for loop has just taken, once.
C9_FailedNotRetried ==
  [][ /\ (FetchingListing /\ Falsy(html')) => LoopLeft'
      /\ LoopLeft => LoopLeft'
      /\ FetchingArticle => ~FetchingArticle'
      /\ FetchingArticle'
           => (pc = "for" /\ idx' = idx + 1 /\ links' = links
                 /\ page' = page) ]_vars

\* the last fetch failed and a later candidate with the same URL is fetched
C9_Witness ==
  /\ FetchingArticle
  /\ html = None
  /\ full_url \in failed

\* C10: a failed article fetch leaves the result and the loop as they were:
\* the pause follows, then the for loop takes the next candidate of the same
\* listing page.
C10_FailedArticleSkipped ==
  [][ /\ (FetchingArticle /\ Falsy(html'))
           => (articles' = articles /\ pc' = "sleep" /\ stop' = "running"
                 /\ links' = links /\ idx' = idx /\ page' = page)
      /\ pc = "sleep"
           => (pc' = "for" /\ articles' = articles /\ links' = links
                 /\ idx' = idx /\ page' = page /\ stop' = stop)
      /\ (pc = "for" /\ idx < Len(links))
           => (idx' = idx + 1 /\ links' = links /\ page' = page
                 /\ articles' = articles) ]_vars

\* an article fetch failed and the run still reached the target afterwards
C10_Witness ==
  /\ pc = "done"
  /\ stop = "target"
  /\ failed # {}
  /\ Len(out.rows) = max_articles

TypeOK ==
  /\ max_articles \in 1..MaxTarget
  /\ page \in 1..MaxPage
  /\ pc \in {"for", "extract", "sleep", "endpage"} => idx \in 0..Len(links)
  /\ Len(links) <= MaxLinks
====
